---- MODULE Spec2Model ----
(***************************************************************************)
(* Model of the backtester backend: the strategy validation-and-repair     *)
(* loop of CodeValidator (backtester/utils/code_validator.py), the         *)
(* generate / modify calls of StrategyGenerator around it, and the metrics *)
(* of a backtest run (Metrics, Backtester.run_backtest).                   *)
(*                                                                         *)
(* A code text is represented by what the program observes of it: whether  *)
(* it can be encoded into the temporary file, and the syntax tree that     *)
(* ast.parse builds from it (or the fact that it has none).                *)
(***************************************************************************)
EXTENDS Integers, Sequences, FiniteSets, TLC

\* ------------------------------------------------------------------ bounds

\* max_attempts is drawn from -1..MaxAttemptsBound
MaxAttemptsBound == 3
\* temporary-file names the file system can hand out
NumNames == 2
\* concurrent execute_in_sandbox invocations (SpecSandbox)
NumProcs == 2
\* successive calls of check_and_correct_strategy on one CodeValidator
MaxCalls == 2
\* execute_in_sandbox calls made in all by concurrent callers (SpecSandbox)
MaxBareCalls == 2
\* longest params tuple of the code texts given to extract_parameters
MaxPairs == 2
\* successive extract_parameters calls on one code text (SpecExtract)
MaxExtractCalls == 2
\* successive generate_strategy / modify_strategy calls (SpecGenerator)
MaxGenCalls == 2
\* closed trades in the ledger of one asset (SpecTrades)
MaxTrades == 3
\* results given to Metrics.calculate (SpecMetrics), assets of a backtest
\* (SpecBacktest)
MaxAssets == 3

\* longest text, in pieces, given to extract_code (SpecExtractCode)
MaxText == 5

\* ------------------------------------------------- syntax trees (ast nodes)

\* A Python value held by a Constant node or stored in the parameters dict.
\* py is the Python type, v its printed form; py = "node" is an ast object.
PyStr(s) == [py |-> "str", v |-> s]
PyInt(s) == [py |-> "int", v |-> s]
PyNone == [py |-> "NoneType", v |-> "None"]
PyNode(n) == [py |-> "node", v |-> n.type]

Constant(val) == [type |-> "Constant", value |-> val]
Name(id) == [type |-> "Name", id |-> id]
UnaryOp(op, operand) == [type |-> "UnaryOp", op |-> op, operand |-> operand]
CallExpr(func) == [type |-> "Call", func |-> func]
Attribute(obj, attr) == [type |-> "Attribute", value |-> obj, attr |-> attr, ctx |-> "Load"]
Tuple(elts) == [type |-> "Tuple", elts |-> elts]
List(elts) == [type |-> "List", elts |-> elts]
Assign(targets, val) == [type |-> "Assign", targets |-> targets, value |-> val]
ClassDef(name, body) == [type |-> "ClassDef", name |-> name, body |-> body]
Pass == [type |-> "Pass"]

\* A code text: enc, whether tmp_file.write can encode it; syntax, whether
\* the Python parser accepts it; tree, the module body ast.parse returns.
CodeText(enc, tree) == [enc |-> enc, syntax |-> TRUE, tree |-> tree]

\* a text the parser rejects with SyntaxError
BadSyntax(enc) == [enc |-> enc, syntax |-> FALSE, tree |-> <<>>]

\* ----------------------------------------------------- extract_parameters

\* isinstance(node, ast.Str): ast.Str is the Constant class, instances are
\* the Constant nodes holding a str.
IsStr(node) == node.type = "Constant" /\ node.value.py = "str"

\* isinstance(node, ast.Num): Constant nodes holding a number.
IsNum(node) == node.type = "Constant" /\ node.value.py \in {"int", "float", "complex"}

\* hasattr(node, "value"): the node classes that declare a field `value`.
HasValue(node) == node.type \in {"Constant", "Attribute", "Subscript", "Starred"}

\* node.value: the held Python value of a Constant, the child node otherwise.
ValueOf(node) == IF node.type = "Constant" THEN node.value ELSE PyNode(node.value)

\* parameters[key] = value on a dict kept as a sequence of <<key, value>>
DictSet(d, k, v) ==
    IF \E j \in 1..Len(d) : d[j][1] = k
    THEN [j \in 1..Len(d) |-> IF d[j][1] = k THEN <<k, v>> ELSE d[j]]
    ELSE Append(d, <<k, v>>)

\* What an evaluation yields: a value, or the exception it raised.
Ok(v) == [exc |-> "none", val |-> v]
Raise(e) == [exc |-> e, val |-> <<>>]

\* lines 113-117: elt.elts[0].s if it is a Str, else elt.elts[0].value
KeyOf(node) ==
    IF IsStr(node) THEN Ok(node.value)
    ELSE IF HasValue(node) THEN Ok(ValueOf(node))
    ELSE Raise("AttributeError")

\* lines 118-122: elt.elts[1].n if it is a Num, else elt.elts[1].value
ParamValueOf(node) ==
    IF IsNum(node) THEN Ok(node.value)
    ELSE IF HasValue(node) THEN Ok(ValueOf(node))
    ELSE Raise("AttributeError")

\* lines 109-112: the elements of the params tuple that are taken as pairs
IsPair(elt) == elt.type = "Tuple" /\ Len(elt.elts) = 2

\* lines 108-123: the loop over subnode.value.elts, from element j on;
\* the first exception ends the whole call.
RECURSIVE AddPairs(_, _, _)
AddPairs(elts, j, parameters) ==
    IF j > Len(elts) THEN Ok(parameters)
    ELSE IF ~IsPair(elts[j]) THEN AddPairs(elts, j + 1, parameters)
    ELSE LET key == KeyOf(elts[j].elts[1])
             value == ParamValueOf(elts[j].elts[2])
         IN  IF key.exc # "none" THEN Raise(key.exc)
             ELSE IF value.exc # "none" THEN Raise(value.exc)
             ELSE AddPairs(elts, j + 1, DictSet(parameters, key.val, value.val))

\* lines 105-107: the targets of one Assign; each target named params adds
\* the pairs of the assigned tuple.
RECURSIVE AddTargets(_, _, _)
AddTargets(subnode, j, parameters) ==
    IF j > Len(subnode.targets) THEN Ok(parameters)
    ELSE LET target == subnode.targets[j]
             r == IF target.type = "Name" /\ target.id = "params" /\ subnode.value.type = "Tuple"
                  THEN AddPairs(subnode.value.elts, 1, parameters)
                  ELSE Ok(parameters)
         IN  IF r.exc # "none" THEN r ELSE AddTargets(subnode, j + 1, r.val)

\* lines 103-104: the statements of the class body
RECURSIVE AddBody(_, _, _)
AddBody(body, j, parameters) ==
    IF j > Len(body) THEN Ok(parameters)
    ELSE LET r == IF body[j].type = "Assign"
                  THEN AddTargets(body[j], 1, parameters)
                  ELSE Ok(parameters)
         IN  IF r.exc # "none" THEN r ELSE AddBody(body, j + 1, r.val)

\* ast.iter_child_nodes restricted to the nodes that can hold a ClassDef
Children(node) == IF node.type = "ClassDef" THEN node.body ELSE <<>>

\* lines 101-102: ast.walk, breadth first, over the queue of pending nodes
RECURSIVE Walk(_, _)
Walk(queue, parameters) ==
    IF queue = <<>> THEN Ok(parameters)
    ELSE LET node == Head(queue)
             r == IF node.type = "ClassDef" /\ node.name = "MyStrategy"
                  THEN AddBody(node.body, 1, parameters)
                  ELSE Ok(parameters)
         IN  IF r.exc # "none" THEN r
             ELSE Walk(Tail(queue) \o Children(node), r.val)

\* ast.parse(code): the tree, or SyntaxError
AstParse(code) == IF ~code.syntax THEN Raise("SyntaxError") ELSE Ok(code.tree)

\* CodeValidator.extract_parameters
extract_parameters(code) ==
    LET tree == AstParse(code)
    IN  IF tree.exc # "none" THEN Raise(tree.exc) ELSE Walk(tree.val, <<>>)

\* An ast node is an object: two parses of one text build two trees, and a
\* node of one is not equal (==) to the node of the other.  NodeOf marks the
\* node values of a result with the call whose ast.parse built them.
NodeOf(call, v) == IF v.py = "node" THEN [py |-> "node", v |-> v.v, tree |-> call] ELSE v

\* the result r of extract_parameters as returned by its call number call
ParsedBy(call, r) ==
    IF r.exc # "none" THEN r
    ELSE Ok([j \in 1..Len(r.val) |-> <<NodeOf(call, r.val[j][1]), NodeOf(call, r.val[j][2])>>])

\* ------------------------------------------------------------ code texts

\* expressions a generated strategy writes as the key of a params pair
KeyExprs == {Constant(PyStr("period")), Constant(PyStr("fast")), Name("KEY")}

\* expressions a generated strategy writes as the value of a params pair
ValExprs ==
    {Constant(PyInt("14")), Constant(PyStr("close")), Constant(PyNone),
     Name("DEFAULT"), UnaryOp("USub", Constant(PyInt("1"))),
     CallExpr(Name("int")), Attribute(Name("bt"), "period")}

\* elements of a params tuple: pairs, and elements of another shape
Elts ==
    {Tuple(<<k, v>>) : k \in KeyExprs, v \in ValExprs}
        \cup {Tuple(<<Constant(PyStr("slow")), Constant(PyInt("30")), Constant(PyInt("2"))>>),
              List(<<Constant(PyStr("slow")), Constant(PyInt("30"))>>)}

EltSeqs == UNION {[1..n -> Elts] : n \in 0..MaxPairs}

Strategy(elts) == <<ClassDef("MyStrategy", <<Pass, Assign(<<Name("params")>>, Tuple(elts))>>)>>

\* texts whose tree has no MyStrategy class or no params tuple in it
Unrecognizable ==
    {<<>>,
     <<Pass>>,
     <<ClassDef("Other", <<Assign(<<Name("params")>>, Tuple(<<Tuple(<<Constant(PyStr("period")), Constant(PyInt("14"))>>)>>))>>)>>,
     <<ClassDef("MyStrategy", <<Pass>>)>>,
     <<ClassDef("MyStrategy", <<Assign(<<Name("other")>>, Tuple(<<Tuple(<<Constant(PyStr("period")), Constant(PyInt("14"))>>)>>))>>)>>,
     <<ClassDef("MyStrategy", <<Assign(<<Name("params")>>, CallExpr(Name("dict")))>>)>>,
     <<ClassDef("MyStrategy", <<Assign(<<Name("params")>>, List(<<Tuple(<<Constant(PyStr("period")), Constant(PyInt("14"))>>)>>))>>)>>,
     <<Assign(<<Name("params")>>, Tuple(<<Tuple(<<Constant(PyStr("period")), Constant(PyInt("14"))>>)>>))>>}

\* texts with more than one MyStrategy class, one of them nested
Nested ==
    {<<ClassDef("Outer", <<ClassDef("MyStrategy", <<Assign(<<Name("params")>>, Tuple(<<e>>))>>)>>),
       ClassDef("MyStrategy", <<Assign(<<Name("params"), Name("defaults")>>, Tuple(<<f>>))>>)>> :
        e \in Elts, f \in {Tuple(<<Constant(PyStr("period")), Constant(PyInt("14"))>>)}}

\* the code texts extract_parameters is applied to
ExtractCodes ==
    {BadSyntax(TRUE)}
        \cup {CodeText(TRUE, t) : t \in Unrecognizable \cup Nested}
        \cup {CodeText(TRUE, Strategy(s)) : s \in EltSeqs}

\* the code texts the validation loop is given and the correction service
\* answers with: a strategy with literal params, one whose params hold a
\* name, a text with a syntax error, a text the temp file cannot encode
CodeGood == CodeText(TRUE, Strategy(<<Tuple(<<Constant(PyStr("period")), Constant(PyInt("14"))>>)>>))
CodeNameParam == CodeText(TRUE, Strategy(<<Tuple(<<Constant(PyStr("period")), Name("DEFAULT")>>)>>))
CodeBroken == BadSyntax(TRUE)
CodeUnencodable == BadSyntax(FALSE)
Codes == {CodeGood, CodeNameParam, CodeBroken, CodeUnencodable}

\* the empty text: the content of a temp file just created
EmptyText == CodeText(TRUE, <<>>)

\* ------------------------------------------------------------------ state

Names == 1..NumNames
Procs == 1..NumProcs
\* the sandbox slot check_and_correct_strategy runs its validations in
Main == 1

VARIABLES
    files,            \* the temp directory: name -> [exists, content, owner]
    sb_pc,            \* execute_in_sandbox of each slot: where it is
    sb_code,          \* its argument code
    tmp_file_path,    \* its tmp_file_path (0: not yet set)
    sb_exc,           \* the exception it is raising (NoExc: none)
    sb_ran,           \* the file content its child process executed
    sb_runs,          \* execute_in_sandbox calls of the slot so far
    pc,               \* check_and_correct_strategy: where it is
    strategy_code, max_attempts, attempts, is_valid, validation_error,
    result,           \* what the last call returned or raised
    calls,            \* calls of check_and_correct_strategy so far
    corrCalls,        \* correct_strategy calls of the current call
    inputCode,        \* the strategy_code argument of the current call
    firstRun,         \* outcome of the first sandbox run of the current call
    timeouts,         \* sandbox runs of the current call that timed out
    failedRuns,       \* sandbox runs of the current call that failed
    corrected,        \* what the last correct_strategy call returned
    corrFailed,       \* whether a correct_strategy call of this call raised
    corrArgs,         \* the arguments of the last correct_strategy call
    ex_code,          \* a code text extract_parameters is applied to
    ex_result,        \* what the last application gave
    ex_calls,         \* extract_parameters calls made on ex_code so far
    ex_first          \* what the first of them gave

\* StrategyGenerator.generate_strategy / modify_strategy
VARIABLES
    g_pc,             \* where the call is
    g_kind,           \* "generate" or "modify"
    g_calls,          \* calls made so far
    g_relevant,       \* what the relevance check of the call answered
    g_gen,            \* how the generation / modification service answered
    g_desc,           \* how the description service answered
    current_strategy_description,
    g_result,         \* what the call returned or raised
    http_status       \* status of the endpoint's response to the call (0: none yet)

\* Metrics._process_trade_analysis
VARIABLES
    closed_trades,    \* the closed trades of a simulation
    trade_analysis,   \* the analysis the simulation's TradeAnalyzer holds
    ta_result,        \* what _process_trade_analysis(trade_analysis) gave
    ta_done           \* whether it has been applied

\* Metrics.calculate
VARIABLES
    m_results,        \* the argument results
    m_metrics,        \* what calculate(results) gave
    m_done            \* whether it has been applied

\* Backtester.run_backtest
VARIABLES
    assets,           \* self.assets
    bt_pc,            \* where the call is
    bt_i,             \* assets the loop of lines 79-82 has gone through
    all_results,
    bt_metrics,       \* what Metrics.calculate gave, or the exception raised
    sim_log,          \* the simulations run so far, in the order they ran
    in_process        \* exec() calls of the strategy code in the server process

\* llm_interface.extract_code
VARIABLES
    ec_output,        \* the argument output
    ec_result,        \* what extract_code(output) gave
    ec_done           \* whether it has been applied

sbVars == <<files, sb_pc, sb_code, tmp_file_path, sb_exc, sb_ran, sb_runs>>
loopVars == <<pc, strategy_code, max_attempts, attempts, is_valid, validation_error,
              result, calls, corrCalls, inputCode, firstRun, timeouts,
              failedRuns, corrected, corrFailed, corrArgs>>
exVars == <<ex_code, ex_result, ex_calls, ex_first>>
\* the variables the validation loop and the sandbox never touch
genVars == <<g_pc, g_kind, g_calls, g_relevant, g_gen, g_desc,
             current_strategy_description, g_result, http_status>>
taVars == <<closed_trades, trade_analysis, ta_result, ta_done>>
metVars == <<m_results, m_metrics, m_done>>
ecVars == <<ec_output, ec_result, ec_done>>
btVars == <<assets, bt_pc, bt_i, all_results, bt_metrics, sim_log, in_process>>
restVars == <<exVars, genVars, taVars, metVars, ecVars, btVars>>
vars == <<sbVars, loopVars, restVars>>

NoFile == [exists |-> FALSE, content |-> EmptyText, owner |-> 0]
NoExc == [type |-> "none", msg |-> "", run |-> 0]
NoError == [prefix |-> "", msg |-> "", run |-> 0]
NoResult == [status |-> "none"]
NoArgs == [code |-> EmptyText, error |-> NoError]

\* ------------------------------------------------------ execute_in_sandbox

\* TempNames with one fixed file name, whether or not it is in use
FixedName(fs) == {n \in Names : n = Main}

\* tempfile.NamedTemporaryFile(delete=False): a name no existing file has
\* (the file is opened with O_EXCL)
TempNames(fs) == {n \in Names : ~fs[n].exists}

\* tmp_file.write(code), closed at the end of the with block: the text must
\* be encodable, and the device may refuse the write
WriteOutcomes(code) == IF code.enc THEN {"written", "OSError"} ELSE {"UnicodeEncodeError"}

\* ChildOutcomes without the deadline, for a child that never ends
ChildNeverEnds(content) == {}

\* subprocess.run(..., timeout=5, check=True) of a file with this content
ChildOutcomes(content) ==
    IF ~content.syntax
    THEN {"nonzero", "timeout", "OSError"}
    ELSE {"exit0", "nonzero", "timeout", "OSError"}

ExecutionTimedOut == "Execution timed out."

\* lines 78-83: what execute_in_sandbox raises for the child's outcome
SandboxError(outcome, run) ==
    CASE outcome = "exit0" -> NoExc
      [] outcome = "nonzero" -> [type |-> "RuntimeError", msg |-> "Execution error: stderr", run |-> run]
      [] outcome = "timeout" -> [type |-> "RuntimeError", msg |-> ExecutionTimedOut, run |-> run]
      [] OTHER -> [type |-> outcome, msg |-> outcome, run |-> run]

\* the call of execute_in_sandbox(code) by slot i
EnterSandbox(i, code) ==
    /\ sb_pc' = [sb_pc EXCEPT ![i] = "create"]
    /\ sb_code' = [sb_code EXCEPT ![i] = code]
    /\ tmp_file_path' = [tmp_file_path EXCEPT ![i] = 0]
    /\ sb_exc' = [sb_exc EXCEPT ![i] = NoExc]
    /\ sb_ran' = [sb_ran EXCEPT ![i] = EmptyText]
    /\ sb_runs' = [sb_runs EXCEPT ![i] = @ + 1]

\* line 64: the temp file is created, empty
CreateTemp(i) ==
    /\ sb_pc[i] = "create"
    /\ \E n \in TempNames(files) :
        /\ files' = [files EXCEPT ![n] = [exists |-> TRUE, content |-> EmptyText, owner |-> i]]
        /\ tmp_file_path' = [tmp_file_path EXCEPT ![i] = n]
    /\ sb_pc' = [sb_pc EXCEPT ![i] = "write"]
    /\ UNCHANGED <<sb_code, sb_exc, sb_ran, sb_runs, loopVars, restVars>>

\* line 64: the temp file cannot be created (no usable name, no space, no
\* permission); nothing was created, the error leaves execute_in_sandbox
CreateFails(i) ==
    /\ sb_pc[i] = "create"
    /\ sb_exc' = [sb_exc EXCEPT ![i] = [type |-> "OSError", msg |-> "OSError", run |-> sb_runs[i]]]
    /\ sb_pc' = [sb_pc EXCEPT ![i] = "done"]
    /\ UNCHANGED <<files, sb_code, tmp_file_path, sb_ran, sb_runs, loopVars, restVars>>

\* lines 65-66: the with block writes the code and closes the file; an
\* error of the write leaves the with block before the try of line 68
WriteTemp(i) ==
    /\ sb_pc[i] = "write"
    /\ \E w \in WriteOutcomes(sb_code[i]) :
        IF w = "written"
        THEN /\ files' = [files EXCEPT ![tmp_file_path[i]].content = sb_code[i]]
             /\ sb_pc' = [sb_pc EXCEPT ![i] = "run"]
             /\ UNCHANGED sb_exc
        ELSE /\ sb_exc' = [sb_exc EXCEPT ![i] = [type |-> w, msg |-> w, run |-> sb_runs[i]]]
             /\ sb_pc' = [sb_pc EXCEPT ![i] = "done"]
             /\ UNCHANGED files
    /\ UNCHANGED <<sb_code, tmp_file_path, sb_ran, sb_runs, loopVars, restVars>>

\* lines 69-83: the child process runs the file found at tmp_file_path
RunChild(i) ==
    /\ sb_pc[i] = "run"
    /\ LET f == files[tmp_file_path[i]]
       IN  \E o \in (IF f.exists THEN ChildOutcomes(f.content) ELSE {"nonzero"}) :
            /\ sb_exc' = [sb_exc EXCEPT ![i] = SandboxError(o, sb_runs[i])]
            /\ sb_ran' = [sb_ran EXCEPT ![i] = f.content]
    /\ sb_pc' = [sb_pc EXCEPT ![i] = "finally"]
    /\ UNCHANGED <<files, sb_code, tmp_file_path, sb_runs, loopVars, restVars>>

\* lines 84-86: os.remove(tmp_file_path), on every way out of the try
Cleanup(i) ==
    /\ sb_pc[i] = "finally"
    /\ IF files[tmp_file_path[i]].exists
       THEN /\ files' = [files EXCEPT ![tmp_file_path[i]] = NoFile]
            /\ UNCHANGED sb_exc
       ELSE /\ sb_exc' = [sb_exc EXCEPT ![i] = [type |-> "FileNotFoundError", msg |-> "FileNotFoundError", run |-> sb_runs[i]]]
            /\ UNCHANGED files
    /\ sb_pc' = [sb_pc EXCEPT ![i] = "done"]
    /\ UNCHANGED <<sb_code, tmp_file_path, sb_ran, sb_runs, loopVars, restVars>>

\* the steps of execute_in_sandbox in slot i
SandboxStep(i) == CreateTemp(i) \/ CreateFails(i) \/ WriteTemp(i) \/ RunChild(i) \/ Cleanup(i)

\* execute_in_sandbox calls made so far by the slots 1..i
RECURSIVE RunsUpTo(_)
RunsUpTo(i) == IF i = 0 THEN 0 ELSE sb_runs[i] + RunsUpTo(i - 1)

\* a caller other than the validation loop calls execute_in_sandbox
BareCall(i) ==
    /\ sb_pc[i] = "idle"
    /\ RunsUpTo(NumProcs) < MaxBareCalls
    /\ \E c \in Codes : EnterSandbox(i, c)
    /\ UNCHANGED <<files, loopVars, restVars>>

\* and gets its result; the locals of the call are gone
BareReturn(i) ==
    /\ sb_pc[i] = "done"
    /\ sb_pc' = [sb_pc EXCEPT ![i] = "idle"]
    /\ sb_code' = [sb_code EXCEPT ![i] = EmptyText]
    /\ tmp_file_path' = [tmp_file_path EXCEPT ![i] = 0]
    /\ sb_exc' = [sb_exc EXCEPT ![i] = NoExc]
    /\ sb_ran' = [sb_ran EXCEPT ![i] = EmptyText]
    /\ UNCHANGED <<files, sb_runs, loopVars, restVars>>

\* ------------------------------------------------------------ validate_code

\* lines 48-51: f"Validation error: {str(e)}" of the exception caught
ValidationError(e) == [prefix |-> "Validation error: ", msg |-> e.msg, run |-> e.run]

\* lines 44-51: what validate_code returns for what execute_in_sandbox did
ValidateResult(e) ==
    IF e.type = "none"
    THEN [is_valid |-> TRUE, error |-> NoError]
    ELSE [is_valid |-> FALSE, error |-> ValidationError(e)]

\* ------------------------------------------------ check_and_correct_strategy

\* InitialAttempts with the counter kept from the previous call
StaleAttempts == attempts

\* line 146: attempts = 0, a local of the call
InitialAttempts == 0

\* LoopGuard with the bound included
LoopGuardInclusive(a, m) == a <= m

\* line 147: the loop condition
LoopGuard(a, m) == a < m

\* AttemptsAfterFailure with a timed-out run not counted
AttemptsSkipTimeout(a, err) == IF err.msg = ExecutionTimedOut THEN a ELSE a + 1

\* line 154: attempts += 1 after a failed validation with this error
AttemptsAfterFailure(a, err) == a + 1

\* IsExhausted one attempt late
IsExhaustedLate(a, m) == a > m

\* line 158: the test that ends the loop with the exhausted-attempts error
IsExhausted(a, m) == a = m

\* ExhaustedError without the diagnostic of the run that just failed
ExhaustedErrorNoDiag(m, err) ==
    [type |-> "ValueError", msg |-> "Failed to validate the strategy after attempts",
     n |-> m, last |-> NoError]

\* lines 159-161: the ValueError raised when the attempts are used up
ExhaustedError(m, err) ==
    [type |-> "ValueError", msg |-> "Failed to validate the strategy after attempts",
     n |-> m, last |-> err]

\* lines 168-169
UnexpectedError ==
    [type |-> "ValueError", msg |-> "Unexpected error in strategy correction."]

\* ReturnedCode with the argument returned instead of the corrected code
ReturnedInput == inputCode

\* line 152: the code that is returned
ReturnedCode == strategy_code

\* a call check_and_correct_strategy(code, m), lines 127-146
Call ==
    /\ pc \in {"idle", "returned", "raised"}
    /\ calls < MaxCalls
    /\ \E c \in Codes, m \in (0 - 1)..MaxAttemptsBound :
        /\ strategy_code' = c
        /\ inputCode' = c
        /\ corrected' = c
        /\ max_attempts' = m
    /\ attempts' = InitialAttempts
    /\ calls' = calls + 1
    /\ corrCalls' = 0
    /\ is_valid' = FALSE
    /\ validation_error' = NoError
    /\ result' = NoResult
    /\ firstRun' = "none"
    /\ timeouts' = 0
    /\ failedRuns' = 0
    /\ corrFailed' = FALSE
    /\ sb_runs' = [sb_runs EXCEPT ![Main] = 0]
    /\ pc' = "while"
    /\ corrArgs' = NoArgs
    /\ UNCHANGED <<files, sb_pc, sb_code, tmp_file_path, sb_exc, sb_ran, restVars>>

\* lines 147-148, 43-45: the loop goes on and validate_code runs the sandbox
ValidateCode ==
    /\ pc = "while"
    /\ LoopGuard(attempts, max_attempts)
    /\ EnterSandbox(Main, strategy_code)
    /\ pc' = "validating"
    /\ UNCHANGED <<corrArgs, files, strategy_code, max_attempts, attempts, is_valid, validation_error,
                   result, calls, corrCalls, inputCode, firstRun, timeouts,
                   failedRuns, corrected, corrFailed, restVars>>

\* lines 147, 168-169: the loop condition fails
LoopExit ==
    /\ pc = "while"
    /\ ~LoopGuard(attempts, max_attempts)
    /\ result' = [status |-> "raised", exc |-> UnexpectedError]
    /\ pc' = "raised"
    /\ UNCHANGED <<corrArgs, sbVars, strategy_code, max_attempts, attempts, is_valid, validation_error,
                   calls, corrCalls, inputCode, firstRun, timeouts,
                   failedRuns, corrected, corrFailed, restVars>>

\* lines 46-51, 148: validate_code returns (is_valid, validation_error)
ValidateReturn ==
    /\ pc = "validating"
    /\ sb_pc[Main] = "done"
    /\ LET r == ValidateResult(sb_exc[Main])
       IN  /\ is_valid' = r.is_valid
           /\ validation_error' = r.error
           /\ firstRun' = IF firstRun # "none" THEN firstRun
                          ELSE IF r.is_valid THEN "ok" ELSE "failed"
           /\ timeouts' = IF sb_exc[Main].msg = ExecutionTimedOut THEN timeouts + 1 ELSE timeouts
           /\ failedRuns' = IF r.is_valid THEN failedRuns ELSE failedRuns + 1
    /\ sb_pc' = [sb_pc EXCEPT ![Main] = "idle"]
    /\ pc' = "checked"
    /\ UNCHANGED <<corrArgs, files, sb_code, tmp_file_path, sb_exc, sb_ran, sb_runs, strategy_code,
                   max_attempts, attempts, result, calls, corrCalls, inputCode,
                   corrected, corrFailed, restVars>>

\* lines 149-152: the code is valid; its parameters are extracted and both
\* are returned (an exception of extract_parameters leaves the call)
Accept ==
    /\ pc = "checked"
    /\ is_valid
    /\ LET parameters == extract_parameters(strategy_code)
       IN  IF parameters.exc = "none"
           THEN /\ result' = [status |-> "returned", code |-> ReturnedCode,
                              parameters |-> parameters.val]
                /\ pc' = "returned"
           ELSE /\ result' = [status |-> "raised",
                              exc |-> [type |-> parameters.exc, msg |-> parameters.exc]]
                /\ pc' = "raised"
    /\ UNCHANGED <<corrArgs, sbVars, strategy_code, max_attempts, attempts, is_valid, validation_error,
                   calls, corrCalls, inputCode, firstRun, timeouts,
                   failedRuns, corrected, corrFailed, restVars>>

\* lines 154-161: the code is not valid; the attempt is counted, and the
\* last one raises
Reject ==
    /\ pc = "checked"
    /\ ~is_valid
    /\ attempts' = AttemptsAfterFailure(attempts, validation_error)
    /\ IF IsExhausted(attempts', max_attempts)
       THEN /\ result' = [status |-> "raised",
                          exc |-> ExhaustedError(max_attempts, validation_error)]
            /\ pc' = "raised"
       ELSE /\ pc' = "correcting"
            /\ UNCHANGED result
    /\ UNCHANGED <<corrArgs, sbVars, strategy_code, max_attempts, is_valid, validation_error,
                   calls, corrCalls, inputCode, firstRun, timeouts,
                   failedRuns, corrected, corrFailed, restVars>>

\* lines 163-165: the arguments correct_strategy is called with
CorrectionArgs == [code |-> strategy_code, error |-> validation_error]

\* lines 163-166, llm_interface 177-195: the correction service answers with
\* a code text, which replaces strategy_code
Correct ==
    /\ pc = "correcting"
    /\ \E c \in Codes : strategy_code' = c /\ corrected' = c
    /\ corrCalls' = corrCalls + 1
    /\ pc' = "while"
    /\ corrArgs' = CorrectionArgs
    /\ UNCHANGED <<sbVars, max_attempts, attempts, is_valid, validation_error, result,
                   calls, inputCode, firstRun, timeouts, failedRuns, corrFailed, restVars>>

\* CorrectRaises with the exception swallowed and the validation retried
CorrectRaisesRetried ==
    /\ pc = "correcting"
    /\ corrCalls' = corrCalls + 1
    /\ corrFailed' = TRUE
    /\ pc' = "while"
    /\ corrArgs' = CorrectionArgs
    /\ UNCHANGED <<sbVars, strategy_code, max_attempts, attempts, is_valid, validation_error,
                   result, calls, inputCode, firstRun, timeouts, failedRuns, corrected, restVars>>

\* lines 163-165, llm_interface 192: the correction service fails; nothing
\* catches its exception
CorrectRaises ==
    /\ pc = "correcting"
    /\ corrCalls' = corrCalls + 1
    /\ corrFailed' = TRUE
    /\ result' = [status |-> "raised", exc |-> [type |-> "UpstreamError", msg |-> "UpstreamError"]]
    /\ pc' = "raised"
    /\ corrArgs' = CorrectionArgs
    /\ UNCHANGED <<sbVars, strategy_code, max_attempts, attempts, is_valid, validation_error,
                   calls, inputCode, firstRun, timeouts, failedRuns, corrected, restVars>>

\* ------------------------------------- generate_strategy / modify_strategy

\* line 39: current_strategy_description = None
NoDescription == [of |-> "None", code |-> EmptyText]

\* llm_interface 197-215: the description the service gives of a code text
DescriptionOf(code) == [of |-> "code", code |-> code]

\* code_validator line 128: max_attempts: int = 3
DefaultMaxAttempts == 3

\* lines 58-60 and 90-92
NotRelated(kind) ==
    [type |-> "ValueError", msg |-> "The provided prompt is not related to a trading strategy.",
     kind |-> kind]

\* an exception of the language-model service (llm_interface lines 115-117)
UpstreamError == [type |-> "UpstreamError", msg |-> "UpstreamError"]

\* viewsets.py, the responses of StrategyViewSet.create (lines 45-71) and
\* partial_update (lines 93-126) to what the call of the generator did
HTTP_200_OK == 200
HTTP_201_CREATED == 201
HTTP_400_BAD_REQUEST == 400
HTTP_500_INTERNAL_SERVER_ERROR == 500

\* isinstance(e, ValueError) for the exceptions of the model; the exceptions
\* of the language-model service (openai.error.OpenAIError) are not
IsValueError(exc) == exc.type \in {"ValueError", "UnicodeEncodeError"}

\* ErrorResponse of a handler that catches every exception
ErrorResponseCatchAll(exc) == HTTP_400_BAD_REQUEST

\* lines 69-71, 124-126: except ValueError answers 400; any other exception
\* leaves the view and the framework answers 500
ErrorResponse(exc) ==
    IF IsValueError(exc) THEN HTTP_400_BAD_REQUEST ELSE HTTP_500_INTERNAL_SERVER_ERROR

\* lines 57-58, 111-112: the serializer accepts the data and the strategy is
\* saved, or is_valid raises ValidationError, or the save fails
SaveOutcomes == {"saved", "invalid", "failed"}

\* lines 57-67, 111-122
SavedResponse(kind, outcome) ==
    CASE outcome = "invalid" -> HTTP_400_BAD_REQUEST
      [] outcome = "failed" -> HTTP_500_INTERNAL_SERVER_ERROR
      [] OTHER -> IF kind = "generate" THEN HTTP_201_CREATED ELSE HTTP_200_OK

\* a call generate_strategy(user_input) or modify_strategy(current_strategy,
\* modification_prompt) begins; the validation loop has not been entered
GenCall ==
    /\ g_pc \in {"idle", "returned", "raised"}
    /\ g_calls < MaxGenCalls
    /\ \E kind \in {"generate", "modify"} : g_kind' = kind
    /\ g_calls' = g_calls + 1
    /\ g_relevant' = "none"
    /\ g_gen' = "none"
    /\ g_desc' = "none"
    /\ g_result' = NoResult
    /\ g_pc' = "relevance"
    /\ pc' = "idle"
    /\ strategy_code' = EmptyText
    /\ inputCode' = EmptyText
    /\ corrected' = EmptyText
    /\ max_attempts' = 0
    /\ attempts' = 0
    /\ corrCalls' = 0
    /\ is_valid' = FALSE
    /\ validation_error' = NoError
    /\ result' = NoResult
    /\ firstRun' = "none"
    /\ timeouts' = 0
    /\ failedRuns' = 0
    /\ corrFailed' = FALSE
    /\ sb_runs' = [sb_runs EXCEPT ![Main] = 0]
    /\ http_status' = 0
    /\ corrArgs' = NoArgs
    /\ UNCHANGED <<files, sb_pc, sb_code, tmp_file_path, sb_exc, sb_ran, calls,
                   current_strategy_description, exVars, taVars, metVars, ecVars, btVars>>

\* lines 54, 86: check_strategy_relevance answers yes
RelevanceYes ==
    /\ g_pc = "relevance"
    /\ g_relevant' = "yes"
    /\ g_pc' = "generating"
    /\ UNCHANGED <<sbVars, loopVars, exVars, taVars, metVars, ecVars, btVars, g_kind, g_calls, g_gen, g_desc,
                   current_strategy_description, g_result, http_status>>

\* RelevanceNo with the answer ignored: the call goes on to the generation
RelevanceNoIgnored ==
    /\ g_pc = "relevance"
    /\ g_relevant' = "no"
    /\ g_pc' = "generating"
    /\ UNCHANGED <<sbVars, loopVars, exVars, taVars, metVars, ecVars, btVars, g_kind, g_calls, g_gen, g_desc,
                   current_strategy_description, g_result, http_status>>

\* lines 54-60, 86-92: check_strategy_relevance answers anything but yes
RelevanceNo ==
    /\ g_pc = "relevance"
    /\ g_relevant' = "no"
    /\ g_result' = [status |-> "raised", exc |-> NotRelated(g_kind)]
    /\ g_pc' = "raised"
    /\ http_status' = ErrorResponse(g_result'.exc)
    /\ UNCHANGED <<sbVars, loopVars, exVars, taVars, metVars, ecVars, btVars, g_kind, g_calls, g_gen, g_desc,
                   current_strategy_description>>

\* lines 54, 86, llm_interface 115-117: the relevance service fails
RelevanceRaises ==
    /\ g_pc = "relevance"
    /\ g_relevant' = "failed"
    /\ g_result' = [status |-> "raised", exc |-> UpstreamError]
    /\ g_pc' = "raised"
    /\ http_status' = ErrorResponse(g_result'.exc)
    /\ UNCHANGED <<sbVars, loopVars, exVars, taVars, metVars, ecVars, btVars, g_kind, g_calls, g_gen, g_desc,
                   current_strategy_description>>

\* lines 62-65, 94-99: the generation / modification service answers with a
\* code text, and check_and_correct_strategy is called on it with the
\* default max_attempts
Generate ==
    /\ g_pc = "generating"
    /\ g_gen' = "ok"
    /\ \E c \in Codes :
        /\ strategy_code' = c
        /\ inputCode' = c
        /\ corrected' = c
    /\ max_attempts' = DefaultMaxAttempts
    /\ attempts' = InitialAttempts
    /\ calls' = calls + 1
    /\ pc' = "while"
    /\ g_pc' = "validating"
    /\ UNCHANGED <<corrArgs, sbVars, is_valid, validation_error, result, corrCalls, firstRun,
                   timeouts, failedRuns, corrFailed, exVars, taVars, metVars, ecVars, btVars, g_kind, g_calls,
                   g_relevant, g_desc, current_strategy_description, g_result, http_status>>

\* lines 62, 94: the generation / modification service fails
GenerateRaises ==
    /\ g_pc = "generating"
    /\ g_gen' = "failed"
    /\ g_result' = [status |-> "raised", exc |-> UpstreamError]
    /\ g_pc' = "raised"
    /\ http_status' = ErrorResponse(g_result'.exc)
    /\ UNCHANGED <<sbVars, loopVars, exVars, taVars, metVars, ecVars, btVars, g_kind, g_calls, g_relevant, g_desc,
                   current_strategy_description>>

\* lines 63-65, 97-99: check_and_correct_strategy raised; nothing catches it
ValidationRaised ==
    /\ g_pc = "validating"
    /\ pc = "raised"
    /\ g_result' = result
    /\ g_pc' = "raised"
    /\ http_status' = ErrorResponse(g_result'.exc)
    /\ UNCHANGED <<sbVars, loopVars, exVars, taVars, metVars, ecVars, btVars, g_kind, g_calls, g_relevant, g_gen, g_desc,
                   current_strategy_description>>

\* lines 63-66, 97-100: check_and_correct_strategy returned
\* (validated_code, parameters); _update_strategy_description is called
Validated ==
    /\ g_pc = "validating"
    /\ pc = "returned"
    /\ g_pc' = "describing"
    /\ UNCHANGED <<sbVars, loopVars, exVars, taVars, metVars, ecVars, btVars, g_kind, g_calls, g_relevant, g_gen, g_desc,
                   current_strategy_description, g_result, http_status>>

\* DescribedCode with the code the service first answered with
DescribedRaw == inputCode

\* lines 66, 100: the argument of _update_strategy_description, the
\* validated_code check_and_correct_strategy returned
DescribedCode == result.code

\* lines 111-113, 66-68, 100-102: the description is stored and the call
\* returns (validated_code, parameters)
Describe ==
    /\ g_pc = "describing"
    /\ g_desc' = "ok"
    /\ current_strategy_description' = DescriptionOf(DescribedCode)
    /\ g_result' = [status |-> "returned", code |-> result.code,
                    parameters |-> result.parameters]
    /\ g_pc' = "returned"
    /\ \E o \in SaveOutcomes : http_status' = SavedResponse(g_kind, o)
    /\ UNCHANGED <<sbVars, loopVars, exVars, taVars, metVars, ecVars, btVars, g_kind, g_calls, g_relevant, g_gen>>

\* lines 111-113, llm_interface 115-117: the description service fails; the
\* exception leaves _update_strategy_description and the call
DescribeRaises ==
    /\ g_pc = "describing"
    /\ g_desc' = "failed"
    /\ g_result' = [status |-> "raised", exc |-> UpstreamError]
    /\ g_pc' = "raised"
    /\ http_status' = ErrorResponse(g_result'.exc)
    /\ UNCHANGED <<sbVars, loopVars, exVars, taVars, metVars, ecVars, btVars, g_kind, g_calls, g_relevant, g_gen,
                   current_strategy_description>>

\* ---------------------------------------------------------------- numbers

\* A Python number or None as the metrics hold it: k = "num" is the finite
\* number n / d in lowest terms with d > 0 (rounding of floats is left
\* out), k = "inf" is float("inf"), k = "None" is None.
RECURSIVE GCD(_, _)
GCD(a, b) == IF b = 0 THEN a ELSE GCD(b, a % b)

Abs(i) == IF i < 0 THEN 0 - i ELSE i

Frac(n, d) ==
    LET sign == IF d < 0 THEN 0 - 1 ELSE 1
        g == GCD(Abs(n), Abs(d))
    IN  [k |-> "num", n |-> (sign * n) \div g, d |-> (sign * d) \div g]

Num(i) == [k |-> "num", n |-> i, d |-> 1]
Inf == [k |-> "inf", n |-> 1, d |-> 0]
None == [k |-> "None", n |-> 0, d |-> 1]

\* a + b; the numbers here are never -inf
Plus(a, b) ==
    IF a.k = "inf" \/ b.k = "inf" THEN Inf ELSE Frac(a.n * b.d + b.n * a.d, a.d * b.d)

\* a * b for finite a and b
Times(a, b) == Frac(a.n * b.n, a.d * b.d)

\* a / b for a finite b that is not 0
TrueDiv(a, b) ==
    IF a.k = "inf" THEN Inf ELSE Frac(a.n * b.d, a.d * b.n)

\* abs(a) and a > 0 for a finite number a
AbsNum(a) == [a EXCEPT !.n = Abs(a.n)]
Positive(a) == a.n > 0

\* ------------------------------------------------ Metrics: trade analysis

\* The analysis bt.analyzers.TradeAnalyzer (backtester.py line 125) holds at
\* the end of a simulation whose closed trades are the sequence trades, each
\* [pnl, barlen]: a trade with pnl >= 0 counts as won, the others as lost.
\* With no trade the analysis has the one entry total.total = 0.
RECURSIVE SumPnl(_, _)
SumPnl(trades, won) ==
    IF trades = <<>> THEN 0
    ELSE (IF (Head(trades).pnl >= 0) = won THEN Head(trades).pnl ELSE 0)
             + SumPnl(Tail(trades), won)

RECURSIVE SumLen(_)
SumLen(trades) == IF trades = <<>> THEN 0 ELSE Head(trades).barlen + SumLen(Tail(trades))

CountOf(trades, won) == Cardinality({j \in 1..Len(trades) : (trades[j].pnl >= 0) = won})

\* the largest pnl of the won trades, the smallest of the lost ones (0 if none)
ExtremePnl(trades, won) ==
    LET pnls == {trades[j].pnl : j \in {i \in 1..Len(trades) : (trades[i].pnl >= 0) = won}}
                    \cup {0}
    IN  CHOOSE x \in pnls : \A y \in pnls : IF won THEN y <= x ELSE x <= y

WonLost(trades, won) ==
    [total |-> Num(CountOf(trades, won)),
     pnl |-> [total |-> Num(SumPnl(trades, won)),
              average |-> IF CountOf(trades, won) = 0 THEN Num(0)
                          ELSE Frac(SumPnl(trades, won), CountOf(trades, won)),
              max |-> Num(ExtremePnl(trades, won))]]

TradeAnalyzer(trades) ==
    IF trades = <<>> THEN [total |-> [total |-> Num(0)]]
    ELSE [total |-> [total |-> Num(Len(trades))],
          won |-> WonLost(trades, TRUE),
          lost |-> WonLost(trades, FALSE),
          pnl |-> [net |-> [average |->
                      Frac(SumPnl(trades, TRUE) + SumPnl(trades, FALSE), Len(trades))]],
          len |-> [average |-> Frac(SumLen(trades), Len(trades))]]

\* the closed trades of the simulations considered
Trades == {[pnl |-> 0 - 2, barlen |-> 1], [pnl |-> 0 - 1, barlen |-> 3],
           [pnl |-> 0, barlen |-> 2], [pnl |-> 1, barlen |-> 1], [pnl |-> 3, barlen |-> 2]}

TradeSeqs == UNION {[1..n -> Trades] : n \in 0..MaxTrades}

\* the keys of the record _process_trade_analysis returns (lines 180-190)
TradeFields ==
    {"total_trades", "winning_trades", "losing_trades", "win_rate", "avg_trade",
     "avg_win", "avg_loss", "largest_win", "largest_loss", "avg_trade_length",
     "profit_factor"}

\* no record returned yet
NotAnalysed == [f \in TradeFields |-> None]

\* NoTrades with the sentinels of an undefined ratio instead of 0
NoTradesUndefined ==
    [total_trades |-> Num(0), winning_trades |-> Num(0), losing_trades |-> Num(0),
     win_rate |-> None, avg_trade |-> None, avg_win |-> Num(0), avg_loss |-> Num(0),
     largest_win |-> Num(0), largest_loss |-> Num(0), avg_trade_length |-> None,
     profit_factor |-> Inf]

\* lines 145-157: the record returned for a ledger without trades
NoTrades ==
    [total_trades |-> Num(0), winning_trades |-> Num(0), losing_trades |-> Num(0),
     win_rate |-> Num(0), avg_trade |-> Num(0), avg_win |-> Num(0), avg_loss |-> Num(0),
     largest_win |-> Num(0), largest_loss |-> Num(0), avg_trade_length |-> Num(0),
     profit_factor |-> Num(0)]

\* ProfitFactor with 0 instead of infinity when nothing was lost
ProfitFactorZero(gross_profits, gross_losses) ==
    IF gross_losses # Num(0) THEN TrueDiv(gross_profits, gross_losses) ELSE Num(0)

\* lines 171-173
ProfitFactor(gross_profits, gross_losses) ==
    IF gross_losses # Num(0) THEN TrueDiv(gross_profits, gross_losses) ELSE Inf

\* Metrics._process_trade_analysis, lines 140-191
_process_trade_analysis(ta) ==
    LET total_trades == ta.total.total
    IN  IF total_trades = Num(0) THEN NoTrades
        ELSE LET winning_trades == ta.won.total
                 losing_trades == ta.lost.total
                 gross_profits == IF Positive(winning_trades) THEN ta.won.pnl.total ELSE Num(0)
                 gross_losses == IF Positive(losing_trades) THEN AbsNum(ta.lost.pnl.total)
                                 ELSE Num(0)
             IN  [total_trades |-> total_trades,
                  winning_trades |-> winning_trades,
                  losing_trades |-> losing_trades,
                  win_rate |-> IF Positive(total_trades)
                               THEN Times(TrueDiv(winning_trades, total_trades), Num(100))
                               ELSE Num(0),
                  avg_trade |-> ta.pnl.net.average,
                  avg_win |-> IF Positive(winning_trades) THEN ta.won.pnl.average ELSE Num(0),
                  avg_loss |-> IF Positive(losing_trades) THEN ta.lost.pnl.average ELSE Num(0),
                  largest_win |-> IF Positive(winning_trades) THEN ta.won.pnl.max ELSE Num(0),
                  largest_loss |-> IF Positive(losing_trades) THEN ta.lost.pnl.max ELSE Num(0),
                  avg_trade_length |-> ta.len.average,
                  profit_factor |-> ProfitFactor(gross_profits, gross_losses)]

\* ------------------------------------------------------ Metrics.calculate

\* Python containers, and the strategy object of a finished simulation (the
\* element of the list cerebro.run() returns): data is the name of its data
\* feed, broker.value what broker.getvalue() gives, analyzers.x what
\* analyzers.x.get_analysis() gives.  A dict is a sequence of <<key, value>>.
PyList(items) == [type |-> "list", items |-> items]
PyTuple(items) == [type |-> "tuple", items |-> items]

StrategyResult(data, value, sharpe, drawdown, returns, trades) ==
    [type |-> "strategy", data |-> data, broker |-> [value |-> value],
     analyzers |-> [sharpe |-> sharpe, drawdown |-> drawdown, returns |-> returns,
                    trades |-> TradeAnalyzer(trades)]]

\* d.get(key, default)
DictGet(d, key, default) ==
    IF \E j \in 1..Len(d) : d[j][1] = key
    THEN d[CHOOSE j \in 1..Len(d) : d[j][1] = key][2]
    ELSE default

\* x[0] for a list or tuple x
Subscript0(x) == IF x.items = <<>> THEN Raise("IndexError") ELSE Ok(x.items[1])

\* the keys of the record _calculate_single returns (lines 63-69)
MetricFields ==
    {"final_portfolio_value", "sharpe_ratio", "max_drawdown", "total_return",
     "trade_analysis"}

\* Metrics._calculate_single, lines 45-71; an object that is not a strategy
\* has no attribute broker
_calculate_single(strat) ==
    IF strat.type # "strategy" THEN Raise("AttributeError")
    ELSE Ok([final_portfolio_value |-> strat.broker.value,
             sharpe_ratio |-> DictGet(strat.analyzers.sharpe, "sharpe", None),
             max_drawdown |->
                 DictGet(DictGet(strat.analyzers.drawdown, "max", <<>>), "drawdown", None),
             total_return |-> DictGet(strat.analyzers.returns, "rtot", None),
             trade_analysis |-> _process_trade_analysis(strat.analyzers.trades)])

RECURSIVE SumOf(_)
SumOf(values) == IF values = <<>> THEN Num(0) ELSE Plus(Head(values), SumOf(Tail(values)))

\* np.mean of a non-empty list
Mean(values) == TrueDiv(SumOf(values), Num(Len(values)))

IsNotNone(v) == v # None

\* safe_mean with None counted as the sample 0
MeanNoneAsZero(values) ==
    IF values = <<>> THEN None
    ELSE Mean([j \in 1..Len(values) |-> IF values[j] = None THEN Num(0) ELSE values[j]])

IsFinite(v) == v.k = "num"

\* safe_mean with an infinite value dropped as None is
MeanFiniteOnly(values) ==
    LET valid_values == SelectSeq(values, IsFinite)
    IN  IF valid_values # <<>> THEN Mean(valid_values) ELSE None

\* lines 89-91
safe_mean(values) ==
    LET valid_values == SelectSeq(values, IsNotNone)
    IN  IF valid_values # <<>> THEN Mean(valid_values) ELSE None

\* Metrics._calculate_multiple, lines 84-127; the first exception of an
\* element ends the call
_calculate_multiple(results) ==
    LET single == [j \in 1..Len(results) |->
                      LET result0 == Subscript0(results[j])
                      IN  IF result0.exc # "none" THEN result0
                          ELSE _calculate_single(result0.val)]
        failed == {j \in 1..Len(results) : single[j].exc # "none"}
    IN  IF failed # {}
        THEN Raise(single[CHOOSE j \in failed : \A i \in failed : j <= i].exc)
        ELSE LET individual_results == [j \in 1..Len(results) |-> single[j].val]
                 trade_analyses == [j \in 1..Len(results) |->
                                       individual_results[j].trade_analysis]
                 Of(f) == [j \in 1..Len(results) |-> individual_results[j][f]]
                 TradesOf(f) == [j \in 1..Len(results) |-> trade_analyses[j][f]]
             IN  Ok([individual_results |-> individual_results,
                     average_metrics |->
                         [final_portfolio_value |-> safe_mean(Of("final_portfolio_value")),
                          sharpe_ratio |-> safe_mean(Of("sharpe_ratio")),
                          max_drawdown |-> safe_mean(Of("max_drawdown")),
                          total_return |-> safe_mean(Of("total_return")),
                          trade_analysis |-> [f \in TradeFields |-> safe_mean(TradesOf(f))]]])

\* the single-result path, line 32
SinglePath(results) ==
    LET result0 == Subscript0(results)
    IN  IF result0.exc # "none" THEN result0 ELSE _calculate_single(result0.val)

\* calculate with the path chosen by the number of results
CalculateByLength(results) ==
    IF Len(results.items) > 1 THEN _calculate_multiple(results.items)
    ELSE IF results.type = "list" /\ results.items # <<>>
         THEN SinglePath(results.items[1])
         ELSE SinglePath(results)

\* Metrics.calculate, lines 27-32
calculate(results) ==
    IF results.type = "list" THEN _calculate_multiple(results.items)
    ELSE SinglePath(results)

\* what the analyzers of a simulation can hold
SharpeAnalyses == {<<>>, << <<"sharpe", Num(1)>> >>, << <<"sharpe", Num(3)>> >>}

\* the strategy objects the simulation of the asset named data can end
\* with: no drawdown, no return and no trade; a drawdown, a return and one
\* won trade; a drawdown, no return, one won and one lost trade
Strats(data) ==
    UNION {{StrategyResult(data, Num(100), sh, <<>>, <<>>, <<>>),
            StrategyResult(data, Num(120), sh,
                           << <<"max", << <<"drawdown", Num(5)>> >> >> >>,
                           << <<"rtot", Num(2)>> >>,
                           <<[pnl |-> 3, barlen |-> 2]>>),
            StrategyResult(data, Num(90), sh,
                           << <<"max", << <<"drawdown", Num(5)>> >> >> >>,
                           <<>>,
                           <<[pnl |-> 1, barlen |-> 1], [pnl |-> 0 - 2, barlen |-> 1]>>)} :
               sh \in SharpeAnalyses}

\* cerebro.run() (backtester.py line 128): a list holding the strategy object
RunResults(data) == {PyList(<<strat>>) : strat \in Strats(data)}

ResultSeqs == UNION {[1..n -> RunResults("AAPL")] : n \in 0..MaxAssets}

\* the arguments Metrics.calculate is applied to: a list of run results, a
\* tuple of run results, a tuple holding one strategy object
MetricsInputs ==
    {PyList(rs) : rs \in ResultSeqs}
        \cup {PyTuple(rs) : rs \in ResultSeqs}
        \cup {PyTuple(<<strat>>) : strat \in Strats("AAPL")}

\* ------------------------------------------------- Backtester.run_backtest

\* the asset identifiers of a request
Assets == {"AAPL", "MSFT"}

AssetSeqs == UNION {[1..n -> Assets] : n \in 0..MaxAssets}

\* AppendResult with the new result put in front
PrependResult(results_so_far, results) == <<results>> \o results_so_far

\* line 82: all_results.append(results)
AppendResult(results_so_far, results) == Append(results_so_far, results)

\* _load_strategy, lines 187-188: exec(self.strategy_code, globals(),
\* namespace) runs the code text in the process of the caller
LoadStrategy == in_process' = in_process + 1

\* lines 79-82, 102-136: the strategy is loaded, the next asset is simulated
\* and its result appended
RunSingleAsset ==
    /\ bt_pc = "loop"
    /\ bt_i < Len(assets)
    /\ LoadStrategy
    /\ \E results \in RunResults(assets[bt_i + 1]) :
        /\ all_results' = AppendResult(all_results, results)
        /\ sim_log' = Append(sim_log, [asset |-> assets[bt_i + 1], strat |-> results.items[1]])
    /\ bt_i' = bt_i + 1
    /\ UNCHANGED <<sbVars, loopVars, exVars, genVars, taVars, metVars, ecVars, assets, bt_pc,
                   bt_metrics>>

\* lines 81, 102-128: the exec of the strategy code, the search for a
\* strategy class in what it defined, loading the data, or the simulation,
\* raises; nothing in run_backtest catches it
RunSingleAssetRaises ==
    /\ bt_pc = "loop"
    /\ bt_i < Len(assets)
    /\ LoadStrategy
    /\ bt_metrics' = Raise("Exception")
    /\ bt_pc' = "raised"
    /\ UNCHANGED <<sbVars, loopVars, exVars, genVars, taVars, metVars, ecVars, assets, bt_i,
                   all_results, sim_log>>

\* lines 84-87: the loop is over; the metrics of all_results are calculated,
\* logged and returned
CalculateMetrics ==
    /\ bt_pc = "loop"
    /\ bt_i = Len(assets)
    /\ bt_metrics' = calculate(PyList(all_results))
    /\ bt_pc' = IF bt_metrics'.exc = "none" THEN "returned" ELSE "raised"
    /\ UNCHANGED <<sbVars, loopVars, exVars, genVars, taVars, metVars, ecVars, assets, bt_i,
                   all_results, sim_log, in_process>>

\* ------------------------------------------------------------ extract_code

\* A text of the language model is a sequence of pieces: the code fence
\* (three backticks), the tag python, a newline, a blank, a word a code
\* line starts with, another word.
Fence == "fence"
Pieces == {Fence, "python", "\n", " ", "def", "x"}
Texts == UNION {[1..n -> Pieces] : n \in 0..MaxText}

\* line 46: the prefixes of a line that looks like code
CodeStarts == {"import", "from", "class", "def", "#"}

IsSpace(piece) == piece \in {" ", "\n"}

\* str.strip()
RECURSIVE LStrip(_)
LStrip(text) ==
    IF text # <<>> /\ IsSpace(Head(text)) THEN LStrip(Tail(text)) ELSE text

RECURSIVE RStrip(_)
RStrip(text) ==
    IF text # <<>> /\ IsSpace(text[Len(text)])
    THEN RStrip(SubSeq(text, 1, Len(text) - 1))
    ELSE text

Strip(text) == RStrip(LStrip(text))

\* line 36, the opening of the pattern (fence, optional python, newline)
\* tried at position i: the position of the newline that ends it, 0 if it
\* does not match there
OpeningEnd(text, i) ==
    IF text[i] # Fence THEN 0
    ELSE IF i + 2 <= Len(text) /\ text[i + 1] = "python" /\ text[i + 2] = "\n" THEN i + 2
    ELSE IF i + 1 <= Len(text) /\ text[i + 1] = "\n" THEN i + 1
    ELSE 0

\* line 36, the lazy group and the closing fence from position j on: the
\* position of the next fence, 0 if there is none
RECURSIVE ClosingFence(_, _)
ClosingFence(text, j) ==
    IF j > Len(text) THEN 0
    ELSE IF text[j] = Fence THEN j
    ELSE ClosingFence(text, j + 1)

\* line 36, re.search: the match at the leftmost position from i on where
\* the pattern matches, with its group 1
RECURSIVE Search(_, _)
Search(text, i) ==
    IF i > Len(text) THEN [found |-> FALSE, group |-> <<>>]
    ELSE LET e == OpeningEnd(text, i)
             c == IF e = 0 THEN 0 ELSE ClosingFence(text, e + 1)
         IN  IF c # 0 THEN [found |-> TRUE, group |-> SubSeq(text, e + 1, c - 1)]
             ELSE Search(text, i + 1)

\* output.split("\n")
RECURSIVE Split(_, _)
Split(text, line) ==
    IF text = <<>> THEN <<line>>
    ELSE IF Head(text) = "\n" THEN <<line>> \o Split(Tail(text), <<>>)
    ELSE Split(Tail(text), Append(line, Head(text)))

\* "\n".join(code_lines)
RECURSIVE Join(_)
Join(lines) ==
    IF lines = <<>> THEN <<>>
    ELSE IF Len(lines) = 1 THEN lines[1]
    ELSE lines[1] \o <<"\n">> \o Join(Tail(lines))

\* line 46: line.strip().startswith(("import", "from", "class", "def", "#"))
StartsWithCode(line) == Strip(line) # <<>> /\ Strip(line)[1] \in CodeStarts

\* Record keeping only the lines that look like code
RECURSIVE RecordMatching(_, _, _)
RecordMatching(lines, recording, code_lines) ==
    IF lines = <<>> THEN code_lines
    ELSE IF StartsWithCode(Head(lines))
         THEN RecordMatching(Tail(lines), TRUE, Append(code_lines, Head(lines)))
         ELSE RecordMatching(Tail(lines), recording, code_lines)

\* lines 42-50: the loop over the lines
RECURSIVE Record(_, _, _)
Record(lines, recording, code_lines) ==
    IF lines = <<>> THEN code_lines
    ELSE IF StartsWithCode(Head(lines)) \/ recording
         THEN Record(Tail(lines), TRUE, Append(code_lines, Head(lines)))
         ELSE Record(Tail(lines), recording, code_lines)

\* extract_code, lines 36-53
extract_code(output) ==
    LET code_block_match == Search(output, 1)
    IN  IF code_block_match.found THEN Strip(code_block_match.group)
        ELSE Join(Record(Split(output, <<>>), FALSE, <<>>))

\* ------------------------------------------------------- specifications

\* StrategyGenerator.__init__, lines 37-39
InitGenerator ==
    /\ g_pc = "idle"
    /\ g_kind = "none"
    /\ g_calls = 0
    /\ g_relevant = "none"
    /\ g_gen = "none"
    /\ g_desc = "none"
    /\ current_strategy_description = NoDescription
    /\ g_result = NoResult
    /\ http_status = 0

\* run_backtest has not gone through any asset
NoBacktest ==
    /\ bt_pc = "loop"
    /\ bt_i = 0
    /\ all_results = <<>>
    /\ bt_metrics = Ok(<<>>)
    /\ sim_log = <<>>
    /\ in_process = 0

\* Metrics.calculate is not being called
NoMetrics ==
    /\ m_results = PyList(<<>>)
    /\ m_metrics = Ok(<<>>)
    /\ m_done = FALSE

\* no ledger is being analysed
NoTradeAnalysis ==
    /\ closed_trades = <<>>
    /\ trade_analysis = TradeAnalyzer(<<>>)
    /\ ta_result = NotAnalysed
    /\ ta_done = FALSE

\* extract_code is not being applied
NoExtractCode == ec_output = <<>> /\ ec_result = <<>> /\ ec_done = FALSE

\* no extract_parameters call made
NoExtract == ex_result = Ok(<<>>) /\ ex_calls = 0 /\ ex_first = Ok(<<>>)

\* the components that are not running in a specification
InitRest ==
    /\ ex_code = EmptyText /\ NoExtract /\ NoExtractCode
    /\ InitGenerator
    /\ NoTradeAnalysis
    /\ NoMetrics
    /\ assets = <<>> /\ NoBacktest

InitSandbox ==
    /\ files = [n \in Names |-> NoFile]
    /\ sb_pc = [i \in Procs |-> "idle"]
    /\ sb_code = [i \in Procs |-> EmptyText]
    /\ tmp_file_path = [i \in Procs |-> 0]
    /\ sb_exc = [i \in Procs |-> NoExc]
    /\ sb_ran = [i \in Procs |-> EmptyText]
    /\ sb_runs = [i \in Procs |-> 0]

InitLoop ==
    /\ pc = "idle"
    /\ strategy_code = EmptyText
    /\ inputCode = EmptyText
    /\ max_attempts = 0
    /\ attempts = 0
    /\ is_valid = FALSE
    /\ validation_error = NoError
    /\ result = NoResult
    /\ calls = 0
    /\ corrCalls = 0
    /\ firstRun = "none"
    /\ timeouts = 0
    /\ failedRuns = 0
    /\ corrected = EmptyText
    /\ corrFailed = FALSE
    /\ corrArgs = NoArgs

\* the validation loop: successive calls of check_and_correct_strategy
Init == InitSandbox /\ InitLoop /\ InitRest

Next ==
    \/ Call
    \/ ValidateCode
    \/ LoopExit
    \/ SandboxStep(Main)
    \/ ValidateReturn
    \/ Accept
    \/ Reject
    \/ Correct
    \/ CorrectRaises

Spec == Init /\ [][Next]_vars

\* the steps of a call of check_and_correct_strategy
LoopStep ==
    \/ ValidateCode
    \/ LoopExit
    \/ SandboxStep(Main)
    \/ ValidateReturn
    \/ Accept
    \/ Reject
    \/ Correct
    \/ CorrectRaises

\* the first call on a CodeValidator
FirstCall == calls = 0 /\ Call

NextTermination == FirstCall \/ LoopStep

\* one call of the validation loop, which keeps running: one thread runs
\* the call, the child process is ended by its deadline (line 73) and each
\* call of the correction service returns or raises
SpecTermination == Init /\ [][NextTermination]_vars /\ WF_vars(LoopStep)

\* concurrent calls of execute_in_sandbox on one temp directory
NextSandbox == \E i \in Procs : BareCall(i) \/ SandboxStep(i) \/ BareReturn(i)

SpecSandbox == Init /\ [][NextSandbox]_vars

\* successive generate_strategy / modify_strategy calls on one
\* StrategyGenerator
NextGenerator ==
    \/ GenCall
    \/ RelevanceYes
    \/ RelevanceNo
    \/ RelevanceRaises
    \/ Generate
    \/ GenerateRaises
    \/ ValidateCode
    \/ SandboxStep(Main)
    \/ ValidateReturn
    \/ Accept
    \/ Reject
    \/ Correct
    \/ CorrectRaises
    \/ ValidationRaised
    \/ Validated
    \/ Describe
    \/ DescribeRaises

SpecGenerator == Init /\ [][NextGenerator]_vars

\* _process_trade_analysis applied to the analysis of a simulation
InitTrades ==
    /\ InitSandbox /\ InitLoop /\ InitGenerator /\ NoMetrics
    /\ assets = <<>> /\ NoBacktest
    /\ ex_code = EmptyText /\ NoExtract /\ NoExtractCode
    /\ closed_trades \in TradeSeqs
    /\ trade_analysis = TradeAnalyzer(closed_trades)
    /\ ta_result = NotAnalysed
    /\ ta_done = FALSE

ApplyTradeAnalysis ==
    /\ ~ta_done
    /\ ta_result' = _process_trade_analysis(trade_analysis)
    /\ ta_done' = TRUE
    /\ UNCHANGED <<sbVars, loopVars, exVars, genVars, metVars, ecVars, btVars, closed_trades,
                   trade_analysis>>

SpecTrades == InitTrades /\ [][ApplyTradeAnalysis]_vars

\* Metrics.calculate applied to the results of simulations
InitMetrics ==
    /\ InitSandbox /\ InitLoop /\ InitGenerator /\ NoTradeAnalysis
    /\ assets = <<>> /\ NoBacktest
    /\ ex_code = EmptyText /\ NoExtract /\ NoExtractCode
    /\ m_results \in MetricsInputs
    /\ m_metrics = Ok(<<>>)
    /\ m_done = FALSE

ApplyCalculate ==
    /\ ~m_done
    /\ m_metrics' = calculate(m_results)
    /\ m_done' = TRUE
    /\ UNCHANGED <<sbVars, loopVars, exVars, genVars, taVars, ecVars, btVars, m_results>>

SpecMetrics == InitMetrics /\ [][ApplyCalculate]_vars

\* run_backtest on a Backtester with the given assets
InitBacktest ==
    /\ InitSandbox /\ InitLoop /\ InitGenerator /\ NoTradeAnalysis /\ NoMetrics
    /\ ex_code = EmptyText /\ NoExtract /\ NoExtractCode
    /\ assets \in AssetSeqs
    /\ NoBacktest

NextBacktest == RunSingleAsset \/ RunSingleAssetRaises \/ CalculateMetrics

SpecBacktest == InitBacktest /\ [][NextBacktest]_vars

\* extract_parameters applied to a code text
InitExtract ==
    /\ InitSandbox /\ InitLoop /\ InitGenerator /\ NoTradeAnalysis /\ NoMetrics
    /\ assets = <<>> /\ NoBacktest
    /\ ex_code \in ExtractCodes /\ NoExtract /\ NoExtractCode

\* one more call extract_parameters(ex_code); the nodes of its result are
\* those of the tree this call parsed
ApplyExtract ==
    /\ ex_calls < MaxExtractCalls
    /\ ex_calls' = ex_calls + 1
    /\ ex_result' = ParsedBy(ex_calls', extract_parameters(ex_code))
    /\ ex_first' = IF ex_calls = 0 THEN ex_result' ELSE ex_first
    /\ UNCHANGED <<sbVars, loopVars, ex_code, genVars, taVars, metVars, ecVars, btVars>>

SpecExtract == InitExtract /\ [][ApplyExtract]_vars

\* extract_code applied to a text
InitExtractCode ==
    /\ InitSandbox /\ InitLoop /\ InitGenerator /\ NoTradeAnalysis /\ NoMetrics
    /\ assets = <<>> /\ NoBacktest
    /\ ex_code = EmptyText /\ NoExtract
    /\ ec_output \in Texts
    /\ ec_result = <<>>
    /\ ec_done = FALSE

ApplyExtractCode ==
    /\ ~ec_done
    /\ ec_result' = extract_code(ec_output)
    /\ ec_done' = TRUE
    /\ UNCHANGED <<sbVars, loopVars, exVars, genVars, taVars, metVars, btVars, ec_output>>

SpecExtractCode == InitExtractCode /\ [][ApplyExtractCode]_vars

\* ------------------------------------------------------------- properties

Finished == pc \in {"returned", "raised"}
Exhausted == pc = "raised" /\ result.exc.type = "ValueError" /\ result.exc # UnexpectedError
SandboxBusy(i) == sb_pc[i] \in {"write", "run", "finally"}

\* C1: if the sandbox run of the initial code succeeds, the call returns
\* after exactly one sandbox execution and no correction call.
C1_FirstRunOkReturns ==
    (Finished /\ firstRun = "ok")
        => (pc = "returned" /\ sb_runs[Main] = 1 /\ corrCalls = 0)

\* C2: if every sandbox run of a call fails (and every correction call
\* answers), then for max_attempts >= 1 the call makes max_attempts - 1
\* correction calls and max_attempts sandbox runs and raises the
\* exhausted-attempts ValueError.
C2_AllFailExhausts ==
    (Finished /\ max_attempts >= 1 /\ failedRuns = sb_runs[Main] /\ ~corrFailed)
        => /\ corrCalls = max_attempts - 1
           /\ sb_runs[Main] = max_attempts
           /\ Exhausted
           /\ result.exc.n = max_attempts

C2_Witness ==
    /\ Exhausted
    /\ max_attempts = 3
    /\ failedRuns = 3
    /\ corrCalls = 2

\* C3: in every state of a call with max_attempts >= 1 the attempts counter
\* is within 0..max_attempts, at most max_attempts sandbox runs and at most
\* max_attempts - 1 correction calls were made; the counter counts the
\* failed runs of this call only (it starts at 0 in every call).
C3_CountersBounded ==
    /\ attempts = failedRuns - (IF pc = "checked" /\ ~is_valid THEN 1 ELSE 0)
    /\ max_attempts >= 1 =>
        /\ attempts \in 0..max_attempts
        /\ sb_runs[Main] <= max_attempts
        /\ corrCalls <= max_attempts - 1

C3_Witness ==
    /\ calls = 2
    /\ max_attempts = 3
    /\ attempts = 3
    /\ sb_runs[Main] = 3
    /\ corrCalls = 2

\* C4: the exhausted-attempts error carries the diagnostic of the last, the
\* max_attempts-th, sandbox run.
C4_LastDiagnostic ==
    Exhausted =>
        /\ result.exc.last = ValidationError(sb_exc[Main])
        /\ result.exc.last.run = max_attempts
        /\ result.exc.last.run = sb_runs[Main]

C4_Witness ==
    /\ Exhausted
    /\ max_attempts = 3
    /\ result.exc.last.run = 3
    /\ result.exc.last.msg = ExecutionTimedOut
    /\ timeouts = 1

\* C5: a call that returns returns the code text whose sandbox run just
\* succeeded (the argument if no correction was made, else the answer of the
\* last correction call) with extract_parameters of that text.
C5_ReturnsValidatedCode ==
    pc = "returned" =>
        /\ sb_exc[Main] = NoExc
        /\ result.code = sb_ran[Main]
        /\ result.code = (IF corrCalls = 0 THEN inputCode ELSE corrected)
        /\ extract_parameters(result.code) = Ok(result.parameters)

C5_Witness ==
    /\ pc = "returned"
    /\ corrCalls = 2
    /\ result.code # inputCode
    /\ result.parameters # <<>>

\* C6: a failure of the correction service ends the call at once with that
\* exception: no sandbox run and no correction call follows it and it is
\* not counted as an attempt.
C6_CorrectionFailureAborts ==
    corrFailed =>
        /\ pc = "raised"
        /\ result.exc.type = "UpstreamError"
        /\ sb_pc[Main] = "idle"
        /\ attempts = failedRuns
        /\ sb_runs[Main] = attempts
        /\ corrCalls = attempts
        /\ attempts < max_attempts

C6_Witness ==
    /\ corrFailed
    /\ attempts = 2
    /\ max_attempts = 3

\* C7: a sandbox timeout consumes exactly one attempt: attempts grows by
\* one and a correction call or the exhausted-attempts error follows; the
\* timed-out runs of a call never exceed max_attempts.
C7_TimeoutBound ==
    /\ timeouts <= failedRuns
    /\ (max_attempts >= 1 \/ calls = 0) => timeouts <= max_attempts

C7_TimeoutStep ==
    (pc = "checked" /\ validation_error.msg = ExecutionTimedOut)
        => /\ attempts' = attempts + 1
           /\ \/ pc' = "correcting"
              \/ pc' = "raised" /\ attempts' = max_attempts

C7_TimeoutConsumesAttempt == []C7_TimeoutBound /\ [][C7_TimeoutStep]_vars

C7_Witness ==
    /\ Exhausted
    /\ max_attempts = 3
    /\ timeouts = 3

\* C8: after every execute_in_sandbox call the temp file of the call no
\* longer exists, so no temp file is left when no sandbox run is under way.
C8_NoTempFileLeft ==
    (\A i \in Procs : ~SandboxBusy(i)) => \A n \in Names : ~files[n].exists

\* C9: concurrent execute_in_sandbox calls each use their own temp file:
\* from creation to cleanup the file of a call exists, holds what that call
\* wrote, and is the file of no other call; the child runs that content.
C9_OwnTempFile ==
    \A i \in Procs :
        SandboxBusy(i) =>
            /\ files[tmp_file_path[i]].exists
            /\ files[tmp_file_path[i]].owner = i
            /\ sb_pc[i] \in {"run", "finally"} => files[tmp_file_path[i]].content = sb_code[i]
            /\ sb_pc[i] = "finally" => sb_ran[i] = sb_code[i]
            /\ \A j \in Procs \ {i} : SandboxBusy(j) => tmp_file_path[j] # tmp_file_path[i]

C9_Witness ==
    \E i, j \in Procs :
        /\ i # j
        /\ sb_pc[i] = "finally"
        /\ sb_pc[j] = "run"
        /\ sb_code[i] # sb_code[j]
        /\ sb_runs[i] + sb_runs[j] = MaxBareCalls

\* C10: extract_parameters never fails: for every code text it returns a
\* mapping.
C10_ExtractNeverFails == ex_result.exc = "none"

\* a params element of the literal shape: (string literal, number or string
\* literal)
IsLiteralPair(elt) ==
    IsPair(elt) /\ IsStr(elt.elts[1]) /\ (IsNum(elt.elts[2]) \/ IsStr(elt.elts[2]))

\* key in parameters
HasEntry(parameters, key) == \E j \in 1..Len(parameters) : parameters[j][1] = key

\* C11: a params pair whose key is not a string literal or whose value is
\* not a number or string literal is skipped: on every text that parses the
\* call raises nothing, every entry of the result has a str key and a
\* number or str value, and every literal pair of the tuple has its entry.
C11_NonLiteralSkipped ==
    (ex_calls > 0 /\ ex_code.syntax) =>
        /\ ex_result.exc = "none"
        /\ \A j \in 1..Len(ex_result.val) :
              /\ ex_result.val[j][1].py = "str"
              /\ ex_result.val[j][2].py \in {"int", "float", "str"}
        /\ \A s \in EltSeqs :
              ex_code = CodeText(TRUE, Strategy(s)) =>
                  \A j \in 1..Len(s) :
                      IsLiteralPair(s[j]) => HasEntry(ex_result.val, s[j].elts[1].value)

\* C12: extract_parameters is pure: a second call on the same code text
\* gives a result equal to that of the first call.
C12_ExtractPure == ex_calls >= 2 => ex_result = ex_first

GenFinished == g_pc \in {"returned", "raised"}

\* C13: when the relevance check answers that the input is irrelevant the
\* call has failed at once with the not-related error: the generation or
\* modification service, the validation loop (sandbox, correction service)
\* and the description service were not called in it and no validation
\* attempt was counted.
C13_IrrelevantFailsAtOnce ==
    g_relevant = "no" =>
        /\ g_pc = "raised"
        /\ g_result = [status |-> "raised", exc |-> NotRelated(g_kind)]
        /\ g_gen = "none"
        /\ g_desc = "none"
        /\ pc = "idle"
        /\ sb_runs[Main] = 0
        /\ sb_pc[Main] = "idle"
        /\ corrCalls = 0
        /\ attempts = 0

\* a second call, a modify_strategy, rejected as irrelevant after a first
\* call that ran the validation loop and stored a description
C13_Witness ==
    /\ g_relevant = "no"
    /\ g_kind = "modify"
    /\ g_pc = "raised"
    /\ g_calls = MaxGenCalls
    /\ calls = 1
    /\ current_strategy_description # NoDescription

\* C14: a failure of the description service after a successful validation
\* does not fail the call: the call returns the validated code and its
\* parameters.
C14_DescriptionFailureHarmless ==
    (GenFinished /\ g_desc = "failed") =>
        /\ g_pc = "returned"
        /\ g_result = [status |-> "returned", code |-> result.code,
                       parameters |-> result.parameters]

\* C15: for a ledger whose total trade count is 0, every field of the
\* record _process_trade_analysis returns is the number 0 (not None, not
\* infinity).
C15_ZeroTradesAllZero ==
    (ta_done /\ trade_analysis.total.total = Num(0)) =>
        /\ DOMAIN ta_result = TradeFields
        /\ \A f \in TradeFields : ta_result[f] = Num(0)

C15_Witness ==
    /\ ta_done
    /\ closed_trades = <<>>
    /\ trade_analysis.total.total = Num(0)
    /\ ta_result.profit_factor = Num(0)
    /\ ta_result.win_rate = Num(0)

\* the gross profit of a ledger, the sum of the pnl of its won trades, and
\* its gross loss, the size of the sum of the pnl of its lost trades
GrossProfit == SumPnl(closed_trades, TRUE)
GrossLoss == Abs(SumPnl(closed_trades, FALSE))

ValidAt(values) == {j \in 1..Len(values) : values[j] # None}

\* the product of the denominators of the first j values that are not None
RECURSIVE CommonDen(_, _)
CommonDen(values, j) ==
    IF j = 0 THEN 1
    ELSE (IF j \in ValidAt(values) THEN values[j].d ELSE 1) * CommonDen(values, j - 1)

\* den times the sum of the first j values that are not None
RECURSIVE ScaledSum(_, _, _)
ScaledSum(values, j, den) ==
    IF j = 0 THEN 0
    ELSE (IF j \in ValidAt(values) THEN values[j].n * (den \div values[j].d) ELSE 0)
             + ScaledSum(values, j - 1, den)

\* avg is None if no value is not None, and otherwise avg times the number
\* of values that are not None is their sum
IsNullExcludingMean(avg, values) ==
    IF ValidAt(values) = {} THEN avg = None
    ELSE IF \E j \in ValidAt(values) : values[j].k = "inf" THEN avg = Inf
    ELSE LET den == CommonDen(values, Len(values))
         IN  /\ avg.k = "num"
             /\ avg.n * Cardinality(ValidAt(values)) * den
                    = ScaledSum(values, Len(values), den) * avg.d

\* C17: every field of average_metrics, the fields of its trade_analysis
\* included, is the null-excluding mean of that field over the individual
\* results: None if it is None for every asset, otherwise the sum of the
\* values that are not None divided by their number.
C17_NullExcludingMean ==
    (m_done /\ m_results.type = "list" /\ m_metrics.exc = "none") =>
        LET individual_results == m_metrics.val.individual_results
            average_metrics == m_metrics.val.average_metrics
            n == Len(individual_results)
        IN  /\ \A f \in MetricFields \ {"trade_analysis"} :
                  IsNullExcludingMean(average_metrics[f],
                                      [j \in 1..n |-> individual_results[j][f]])
            /\ \A f \in TradeFields :
                  IsNullExcludingMean(average_metrics.trade_analysis[f],
                                      [j \in 1..n |-> individual_results[j].trade_analysis[f]])

\* Sharpe ratios None, 1, 3 average to 2; a drawdown that no asset has
\* averages to None
C17_Witness ==
    /\ m_done
    /\ m_results.type = "list"
    /\ m_metrics.exc = "none"
    /\ Len(m_metrics.val.individual_results) = 3
    /\ m_metrics.val.individual_results[1].sharpe_ratio = None
    /\ m_metrics.val.individual_results[2].sharpe_ratio = Num(1)
    /\ m_metrics.val.individual_results[3].sharpe_ratio = Num(3)
    /\ m_metrics.val.average_metrics.sharpe_ratio = Num(2)
    /\ m_metrics.val.average_metrics.max_drawdown = None

\* the argument is a tuple holding one strategy object: a bare single result
IsBareResult(results) ==
    results.type = "tuple" /\ Len(results.items) = 1 /\ results.items[1].type = "strategy"

\* the argument is a list or tuple of run results
IsResultSeq(results) == \A j \in 1..Len(results.items) : results.items[j].type = "list"

IsFlat(r) == r.exc = "none" /\ DOMAIN r.val = MetricFields
IsWrapped(r) == r.exc = "none" /\ DOMAIN r.val = {"individual_results", "average_metrics"}

C19_WrappedOnlyForSeveral ==
    bt_pc = "returned" =>
        /\ IsWrapped(bt_metrics) <=> Len(assets) > 1
        /\ Len(assets) = 1 => IsFlat(bt_metrics)

\* C20: the assets are simulated one at a time in the order given, each on
\* its own data feed, and individual_results has one entry per asset, entry
\* j being the metrics of the simulation of the j-th asset.
C20_ResultsInAssetOrder ==
    /\ bt_i = Len(sim_log)
    /\ Len(sim_log) <= Len(assets)
    /\ \A j \in 1..Len(sim_log) :
          sim_log[j].asset = assets[j] /\ sim_log[j].strat.data = assets[j]
    /\ bt_pc = "returned" =>
          /\ IsWrapped(bt_metrics)
          /\ Len(bt_metrics.val.individual_results) = Len(assets)
          /\ \A j \in 1..Len(assets) :
                bt_metrics.val.individual_results[j] = _calculate_single(sim_log[j].strat).val

\* three assets whose simulations ended differently
C20_Witness ==
    /\ bt_pc = "returned"
    /\ assets = <<"MSFT", "AAPL", "MSFT">>
    /\ Len(bt_metrics.val.individual_results) = 3
    /\ bt_metrics.val.individual_results[1] # bt_metrics.val.individual_results[2]
    /\ bt_metrics.val.individual_results[2] # bt_metrics.val.individual_results[3]
    /\ bt_metrics.val.individual_results[1] # bt_metrics.val.individual_results[3]

\* C21: an infinite profit_factor is kept as a sample of the mean: when the
\* profit_factor of some asset is +infinity (it is None for no asset) the
\* averaged profit_factor is +infinity.
C21_InfinityKept ==
    (m_done /\ m_results.type = "list" /\ m_metrics.exc = "none") =>
        LET individual_results == m_metrics.val.individual_results
            n == Len(individual_results)
        IN  /\ \A j \in 1..n : individual_results[j].trade_analysis.profit_factor # None
            /\ (\E j \in 1..n : individual_results[j].trade_analysis.profit_factor = Inf)
                   => m_metrics.val.average_metrics.trade_analysis.profit_factor = Inf

\* profit factors +infinity, 1/2 and 0 average to +infinity
C21_Witness ==
    /\ m_done
    /\ m_results.type = "list"
    /\ m_metrics.exc = "none"
    /\ Len(m_metrics.val.individual_results) = 3
    /\ m_metrics.val.individual_results[1].trade_analysis.profit_factor = Inf
    /\ m_metrics.val.individual_results[2].trade_analysis.profit_factor = Frac(1, 2)
    /\ m_metrics.val.individual_results[3].trade_analysis.profit_factor = Num(0)
    /\ m_metrics.val.average_metrics.trade_analysis.profit_factor = Inf

\* C22: strategy code is run only as the child process of the sandbox,
\* never in the server process, on the paths through generate, modify,
\* validate and backtest.
C22_NeverInProcess == in_process = 0

\* C23: the create and modify endpoints answer an irrelevant-input failure
\* and an exhausted-attempts failure with 400, and every other exception of
\* the call (language-model service, description service, parameter
\* extraction) with 500 and never with 400.
C23_ClientAndServerErrors ==
    g_pc = "raised" =>
        IF g_relevant = "no" \/ (g_relevant = "yes" /\ g_gen = "ok" /\ Exhausted)
        THEN http_status = HTTP_400_BAD_REQUEST
        ELSE /\ \/ g_relevant = "failed"
                \/ g_gen = "failed"
                \/ g_desc = "failed"
                \/ corrFailed
                \/ (is_valid /\ extract_parameters(strategy_code).exc # "none")
             /\ http_status = HTTP_500_INTERNAL_SERVER_ERROR

\* a second call, a modify, whose validated code has a params pair that
\* cannot be extracted, is answered with 500
C23_Witness ==
    /\ g_calls = MaxGenCalls
    /\ g_kind = "modify"
    /\ g_pc = "raised"
    /\ is_valid
    /\ g_result.exc.type = "AttributeError"
    /\ http_status = HTTP_500_INTERNAL_SERVER_ERROR

\* every correction call of the current call was given the code that the
\* sandbox had just been given and the diagnostic of that run, and the run
\* after a correction is given, and executes, what the correction answered
CorrectionFaithful ==
    corrCalls > 0 =>
        /\ corrArgs.error.run = corrCalls
        /\ corrArgs.error.prefix = "Validation error: "
        /\ sb_runs[Main] = corrCalls =>
               /\ corrArgs.code = sb_code[Main]
               /\ corrArgs.error = ValidationError(sb_exc[Main])
        /\ (sb_runs[Main] > corrCalls /\ ~corrFailed) =>
               /\ sb_runs[Main] = corrCalls + 1
               /\ sb_code[Main] = corrected
               /\ sb_pc[Main] = "finally" => sb_ran[Main] = corrected

\* the first run failed and the second, of the corrected code, succeeded:
\* one correction call, made with the argument code and the diagnostic of
\* run 1, and the call returns the corrected code
AcceptsOnSecond ==
    (Finished /\ sb_runs[Main] = 2 /\ failedRuns = 1 /\ firstRun = "failed") =>
        /\ corrCalls = 1
        /\ corrArgs.code = inputCode
        /\ corrArgs.error.run = 1
        /\ pc = "returned"
        /\ result.code = corrected

\* C24: each correction call receives the code that just failed the sandbox
\* with the diagnostic of that run, the next sandbox run executes the
\* correction's output, and when the first run fails and the corrected code
\* succeeds the service is called once, with the first diagnostic, and the
\* loop accepts on attempt 2.
C24_CorrectionGetsFailure == CorrectionFaithful /\ AcceptsOnSecond

\* the details of the two failure kinds of the sandbox: the child exited
\* non-zero (its error stream), the child exceeded the deadline
SandboxFailures == {"Execution error: stderr", ExecutionTimedOut}

\* C25: only the two sandbox failure kinds are validation failures that
\* consume an attempt and are handed to the correction service; an error
\* of creating or writing the temp file is not one of them.
C25_OnlySandboxFailuresCorrected ==
    /\ (pc \in {"checked", "correcting"} /\ ~is_valid) => validation_error.msg \in SandboxFailures
    /\ corrCalls > 0 => corrArgs.error.msg \in SandboxFailures

\* a fenced region of text: a fence at i, followed by a newline at e, at
\* once or after the tag python, and the next fence after it at c
IsRegion(text, i, e, c) ==
    /\ text[i] = Fence
    /\ text[e] = "\n"
    /\ e = i + 1 \/ (e = i + 2 /\ text[i + 1] = "python")
    /\ c > e
    /\ text[c] = Fence
    /\ \A k \in (e + 1)..(c - 1) : text[k] # Fence

Regions(text) ==
    {r \in (1..Len(text)) \X (1..Len(text)) \X (1..Len(text)) :
        IsRegion(text, r[1], r[2], r[3])}

\* trimmed is text without its leading and trailing blanks and newlines
IsTrimmed(trimmed, text) ==
    /\ trimmed # <<>> => ~IsSpace(trimmed[1]) /\ ~IsSpace(trimmed[Len(trimmed)])
    /\ \E a \in 1..(Len(text) + 1), b \in 0..Len(text) :
          /\ trimmed = SubSeq(text, a, b)
          /\ \A k \in 1..Len(text) : (k < a \/ k > b) => IsSpace(text[k])

\* the positions where a line of text begins that starts, after blanks,
\* with one of the code prefixes
CodeLineStarts(text) ==
    {p \in 1..Len(text) :
        /\ p = 1 \/ text[p - 1] = "\n"
        /\ \E q \in p..Len(text) :
              text[q] \in CodeStarts /\ \A k \in p..(q - 1) : text[k] = " "}

\* C26: extract_code gives, when the text has a fenced region, optionally
\* tagged python, the trimmed interior of the first one; otherwise the rest
\* of the text from the first line on that starts with import, from, class,
\* def or #, every later line included; and the empty text when there is no
\* such line.
C26_ExtractCode ==
    ec_done =>
        IF Regions(ec_output) # {}
        THEN LET r == CHOOSE r \in Regions(ec_output) :
                          \A q \in Regions(ec_output) : r[1] <= q[1]
             IN  IsTrimmed(ec_result, SubSeq(ec_output, r[2] + 1, r[3] - 1))
        ELSE IF CodeLineStarts(ec_output) # {}
        THEN LET p == CHOOSE p \in CodeLineStarts(ec_output) :
                          \A q \in CodeLineStarts(ec_output) : p <= q
             IN  ec_result = SubSeq(ec_output, p, Len(ec_output))
        ELSE ec_result = <<>>

\* prose, a line of code, prose: the result is the code line and the prose
\* after it
C26_Witness ==
    /\ ec_done
    /\ ec_output = <<"x", "\n", "def", "\n", "x">>
    /\ ec_result = <<"def", "\n", "x">>

\* C27: a call with max_attempts <= 0 makes no sandbox run and no
\* correction call and fails with the ValueError 'Unexpected error in
\* strategy correction.'; with max_attempts >= 1 that error is never raised;
\* with max_attempts = 1 the call makes one sandbox run and no correction.
C27_AttemptBounds ==
    pc # "idle" =>
        /\ max_attempts <= 0 =>
               /\ sb_runs[Main] = 0
               /\ corrCalls = 0
               /\ pc \in {"while", "raised"}
               /\ pc = "raised" => result.exc = UnexpectedError
        /\ (max_attempts >= 1 /\ pc = "raised") => result.exc # UnexpectedError
        /\ max_attempts = 1 =>
               /\ corrCalls = 0
               /\ sb_runs[Main] <= 1
               /\ Finished => sb_runs[Main] = 1

\* a second call, with max_attempts = -1, has failed at once
C27_Witness ==
    /\ calls = 2
    /\ max_attempts = 0 - 1
    /\ pc = "raised"
    /\ result.exc = UnexpectedError
    /\ sb_runs[Main] = 0

\* C28: every call of check_and_correct_strategy ends: from every state of
\* a running call a state is reached where the call has returned or raised.
C28_Terminates == (pc \in {"while", "validating", "checked", "correcting"}) ~> Finished

\* a call with max_attempts = 3 has ended after three runs and two
\* corrections
C28_Witness ==
    /\ Finished
    /\ max_attempts = 3
    /\ sb_runs[Main] = 3
    /\ corrCalls = 2
    /\ timeouts >= 1

\* after a call that returned, the description held is that of the code
\* returned, which is the code the sandbox ran last
DescriptionOfReturned ==
    g_pc = "returned" =>
        /\ current_strategy_description = DescriptionOf(g_result.code)
        /\ g_result.code = sb_ran[Main]
        /\ g_result.code = (IF corrCalls = 0 THEN inputCode ELSE corrected)

\* a step that changes the description is the last step of a call that
\* returns
DescriptionStep ==
    current_strategy_description' # current_strategy_description
        => (g_pc = "describing" /\ g_pc' = "returned")

\* C29: current_strategy_description changes only at the end of a
\* successful generate_strategy / modify_strategy, where it becomes the
\* description of the validated code that is returned; a call that fails
\* leaves it as it was.
C29_DescriptionOnlyOnSuccess == []DescriptionOfReturned /\ [][DescriptionStep]_vars

\* a second call has returned corrected code and holds its description
C29_Witness ==
    /\ g_calls = MaxGenCalls
    /\ g_pc = "returned"
    /\ corrCalls >= 1
    /\ corrected # inputCode
    /\ current_strategy_description = DescriptionOf(corrected)

====
